---- MODULE Spec2Model ----
(***************************************************************************)
(* Model of the WirePact k8s-contract-provider: the provisioning workflow  *)
(* (fetch_contracts), its two storage backends (LocalStorage,              *)
(* KubernetesStorage) and the scheduler (main, provider_interval, signal). *)
(*                                                                         *)
(* Byte strings are sequences of tokens.  A token stands for one PEM block *)
(* (a certificate, a private key) or for a run of bytes that is no PEM     *)
(* block at all ("junk").  Concatenating byte strings is \o.               *)
(***************************************************************************)
EXTENDS Integers, Sequences, FiniteSets, TLC

\* ------------------------------------------------------------------ bounds
\* The cycle counter saturates at MaxCycles (it never blocks the loop).
MaxCycles == 2
\* The longest certificate list the repository returns.
MaxRepo == 2
\* The longest certificate list handed to store_chain in ChainSpec.
MaxChain == 2

\* ------------------------------------------------------------------ bytes
CaTokens == {"CA1", "CA2"}
SignedTokens == {"CERT1"}
RepoTokens == {"X", "Y"}
KeyTokens == {"KEY1"}
CertTokens == CaTokens \cup SignedTokens \cup RepoTokens
Junk == <<"junk">>

Min(S) == CHOOSE x \in S : \A y \in S : x <= y

\* Sequences over S of length 0..n.
SeqsUpTo(S, n) == UNION {[1..k -> S] : k \in 0..n}

\* openssl X509::from_pem: the first PEM block named CERTIFICATE is parsed;
\* bytes holding no such block do not parse.
CertPositions(bytes) == {i \in 1..Len(bytes) : bytes[i] \in CertTokens}
X509_from_pem_is_ok(bytes) == CertPositions(bytes) # {}

\* openssl PKey::private_key_from_pem: the first private-key PEM block.
private_key_from_pem_is_ok(bytes) == \E i \in 1..Len(bytes) : bytes[i] \in KeyTokens

\* certs.rs certificate_hash: parse, digest, hex.  The digest is a function
\* of the parsed certificate (the first CERTIFICATE block), not of the file.
certificate_hash(public_key) ==
    IF X509_from_pem_is_ok(public_key)
    THEN [ok |-> TRUE, hash |-> <<"sha256", public_key[Min(CertPositions(public_key))]>>]
    ELSE [ok |-> FALSE, hash |-> <<>>]

\* Concatenation of a list of byte strings, in order.
RECURSIVE Concat(_)
Concat(certificates) ==
    IF certificates = <<>> THEN <<>>
    ELSE Head(certificates) \o Concat(Tail(certificates))

\* -------------------------------------------------------- storage entries
\* One file of ./data, or one entry of the secret's data map.
AbsentEntry == [kind |-> "absent", bytes |-> <<>>]
\* A file that exists (Path::exists is true) and cannot be read.
UnreadableEntry == [kind |-> "unreadable", bytes |-> <<>>]
Present(bytes) == [kind |-> "present", bytes |-> bytes]

\* ------------------------------------------------------------ LocalStorage
FileNames == {"ca.crt", "cert.crt", "cert.key", "chain.crt"}
NoFiles == [n \in FileNames |-> AbsentEntry]

\* tokio::fs::read(path): Err for a missing or unreadable file.
ReadOk(entry) == entry.kind = "present"
\* Path::exists.
Exists(entry) == entry.kind # "absent"

\* local.rs has_certificate: both reads are unwrapped before the existence
\* checks, so a failed read panics.
LocalHasCertificate(f) ==
    IF ~ReadOk(f["cert.crt"]) \/ ~ReadOk(f["cert.key"]) THEN "panic"
    ELSE IF /\ Exists(f["cert.crt"]) /\ Exists(f["cert.key"])
            /\ X509_from_pem_is_ok(f["cert.crt"].bytes)
            /\ private_key_from_pem_is_ok(f["cert.key"].bytes)
         THEN "true" ELSE "false"

\* local.rs has_ca: exists() short-circuits the read; the read is unwrapped.
LocalHasCa(f) ==
    IF ~Exists(f["ca.crt"]) THEN "false"
    ELSE IF ~ReadOk(f["ca.crt"]) THEN "panic"
    ELSE IF X509_from_pem_is_ok(f["ca.crt"].bytes) THEN "true" ELSE "false"

\* local.rs get_ca: read()? then certificate_hash()?.
LocalGetCa(f) ==
    IF ~ReadOk(f["ca.crt"]) THEN [ok |-> FALSE, ca |-> <<>>, hash |-> <<>>]
    ELSE LET h == certificate_hash(f["ca.crt"].bytes)
         IN  IF h.ok THEN [ok |-> TRUE, ca |-> f["ca.crt"].bytes, hash |-> h.hash]
             ELSE [ok |-> FALSE, ca |-> <<>>, hash |-> <<>>]

\* tokio::fs::write(path, contents): create-or-truncate, then write all.
WriteFile(f, name, contents) == [f EXCEPT ![name] = Present(contents)]
\* The outcomes of a write that fails: the open failed (nothing changed) or
\* the file was truncated and the write did not complete.
WriteFileFailed(f, name) == {f, [f EXCEPT ![name] = Present(<<>>)]}

LocalStoreCa(f, certificate) == WriteFile(f, "ca.crt", certificate)

LocalStoreCertificate(f, certificate, key) ==
    WriteFile(WriteFile(f, "cert.crt", certificate), "cert.key", key)

\* A store_certificate that returns Err: the first write failed, or the
\* first succeeded and the second failed.
LocalStoreCertificateFailed(f, certificate) ==
    WriteFileFailed(f, "cert.crt")
        \cup WriteFileFailed(WriteFile(f, "cert.crt", certificate), "cert.key")

\* local.rs store_chain: File::create truncates, then each certificate is
\* appended with write_all.
RECURSIVE WriteAll(_, _)
WriteAll(content, certificates) ==
    IF certificates = <<>> THEN content
    ELSE WriteAll(content \o Head(certificates), Tail(certificates))

FileCreate(f, name) == [f EXCEPT ![name] = Present(<<>>)]

\* A faulty variant: the file is opened without truncation and written from offset 0,
\* so the tail of a longer earlier content stays.
LocalStoreChain_NoTruncate(f, certificates) ==
    LET old == f["chain.crt"].bytes
        new == WriteAll(<<>>, certificates)
    IN  [f EXCEPT !["chain.crt"] =
            Present(IF Len(old) > Len(new)
                    THEN new \o SubSeq(old, Len(new) + 1, Len(old))
                    ELSE new)]

LocalStoreChain(f, certificates) ==
    LET created == FileCreate(f, "chain.crt")
    IN  [created EXCEPT !["chain.crt"] =
            Present(WriteAll(created["chain.crt"].bytes, certificates))]

\* A store_chain that returns Err: File::create failed, or the write of
\* certificate k+1 failed after k certificates were written.
LocalStoreChainFailed(f, certificates) ==
    {f} \cup {LocalStoreChain(f, SubSeq(certificates, 1, k)) :
                 k \in 0..(Len(certificates) - 1)}

\* ------------------------------------------------------- KubernetesStorage
SECRET_CERT == "cert"
SECRET_CERT_WITH_CA == "cert_with_ca"
SECRET_KEY == "key"
SECRET_CHAIN == "chain"
SECRET_CA == "ca"
SecretKeys == {SECRET_CERT, SECRET_CERT_WITH_CA, SECRET_KEY, SECRET_CHAIN, SECRET_CA}

\* The configured --secret-name.
SecretName == "wirepact-contracts"

NoData == [k \in SecretKeys |-> AbsentEntry]
\* No secret object of the configured name.
NoSecret == [exists |-> FALSE, name |-> "", hasData |-> FALSE, data |-> NoData]

\* A faulty variant: the check answers false whatever the secret holds.
K8sHasCertificate_Never(s, apiOk) == "false"

\* kubernetes.rs has_certificate: get_opt must answer Ok(Some(secret)) and the
\* secret must hold data; a missing entry counts as not ok.
K8sHasCertificate(s, apiOk) ==
    IF apiOk /\ s.exists /\ s.hasData
    THEN LET cert_ok == IF s.data[SECRET_CERT].kind = "present"
                        THEN X509_from_pem_is_ok(s.data[SECRET_CERT].bytes)
                        ELSE FALSE
             key_ok == IF s.data[SECRET_KEY].kind = "present"
                       THEN private_key_from_pem_is_ok(s.data[SECRET_KEY].bytes)
                       ELSE FALSE
         IN  IF cert_ok /\ key_ok THEN "true" ELSE "false"
    ELSE "false"

\* A faulty variant: the check answers false whatever the secret holds.
K8sHasCa_Never(s, apiOk) == "false"

\* kubernetes.rs has_ca: get must answer Ok (a missing secret is an Err).
K8sHasCa(s, apiOk) ==
    IF apiOk /\ s.exists /\ s.hasData
    THEN IF s.data[SECRET_CA].kind = "present"
         THEN IF X509_from_pem_is_ok(s.data[SECRET_CA].bytes) THEN "true" ELSE "false"
         ELSE "false"
    ELSE "false"

\* A faulty variant: a missing ca entry is answered as an empty CA.
K8sGetCa_EmptyWhenMissing(s, apiOk) ==
    IF apiOk /\ s.exists /\ s.hasData /\ s.data[SECRET_CA].kind = "present"
    THEN LET h == certificate_hash(s.data[SECRET_CA].bytes)
         IN  IF h.ok THEN [ok |-> TRUE, ca |-> s.data[SECRET_CA].bytes, hash |-> h.hash]
             ELSE [ok |-> FALSE, ca |-> <<>>, hash |-> <<>>]
    ELSE [ok |-> apiOk, ca |-> <<>>, hash |-> <<>>]

\* kubernetes.rs get_ca: the entry, with certificate_hash()?; "No CA found"
\* in every other case.
K8sGetCa(s, apiOk) ==
    IF apiOk /\ s.exists /\ s.hasData /\ s.data[SECRET_CA].kind = "present"
    THEN LET h == certificate_hash(s.data[SECRET_CA].bytes)
         IN  IF h.ok THEN [ok |-> TRUE, ca |-> s.data[SECRET_CA].bytes, hash |-> h.hash]
             ELSE [ok |-> FALSE, ca |-> <<>>, hash |-> <<>>]
    ELSE [ok |-> FALSE, ca |-> <<>>, hash |-> <<>>]

\* A faulty variant: the data map is replaced by the written entries.
ModifySecret_ReplacesData(s, changes) ==
    [exists |-> TRUE, name |-> IF s.exists THEN s.name ELSE SecretName,
     hasData |-> TRUE,
     data |-> [k \in SecretKeys |->
                 IF k \in DOMAIN changes THEN Present(changes[k]) ELSE AbsentEntry]]

\* kubernetes.rs modify_secret: entry(name), or_insert(a Secret holding only
\* the name), and_modify(func), commit.  func inserts `changes` into the data
\* map (get_or_insert_with(BTreeMap::default)); changes maps each key to write
\* to its bytes.
ModifySecret(s, changes) ==
    LET base == IF s.exists THEN s
                ELSE [exists |-> TRUE, name |-> SecretName, hasData |-> FALSE,
                      data |-> NoData]
    IN  [base EXCEPT !.hasData = TRUE,
                     !.data = [k \in SecretKeys |->
                                 IF k \in DOMAIN changes THEN Present(changes[k])
                                 ELSE base.data[k]]]

K8sStoreCa(s, certificate) ==
    ModifySecret(s, [k \in {SECRET_CA} |-> certificate])

\* kubernetes.rs store_certificate, after its get_ca answered ca.
K8sStoreCertificate(s, certificate, key, ca) ==
    ModifySecret(s, [k \in {SECRET_CERT, SECRET_KEY, SECRET_CERT_WITH_CA} |->
                        IF k = SECRET_CERT THEN certificate
                        ELSE IF k = SECRET_KEY THEN key
                        ELSE certificate \o ca])

\* kubernetes.rs store_chain: the certificates appended into one buffer.
RECURSIVE AppendAll(_, _)
AppendAll(certs, certificates) ==
    IF certificates = <<>> THEN certs
    ELSE AppendAll(certs \o Head(certificates), Tail(certificates))

K8sStoreChain(s, certificates) ==
    ModifySecret(s, [k \in {SECRET_CHAIN} |-> AppendAll(<<>>, certificates)])

\* kubernetes.rs current_namespace.  Strings are sequences of tokens, so that
\* trim() has something to remove.  kubeconfig: whether Kubeconfig::read()
\* answered Ok, its current_context (Option) and, for each context name, the
\* context of that name (if any) with its namespace; pod_namespace: env::var; file: the
\* downward-API file.
DEFAULT_NAMESPACE == <<"default">>
Whitespace == {" ", "\n"}
None == [set |-> FALSE, value |-> <<>>]
Some(v) == [set |-> TRUE, value |-> v]
NoContext == [present |-> FALSE, namespace |-> None]
Context(namespace) == [present |-> TRUE, namespace |-> namespace]

RECURSIVE TrimStart(_)
TrimStart(s) ==
    IF s # <<>> /\ Head(s) \in Whitespace THEN TrimStart(Tail(s)) ELSE s
RECURSIVE TrimEnd(_)
TrimEnd(s) ==
    IF s # <<>> /\ s[Len(s)] \in Whitespace THEN TrimEnd(SubSeq(s, 1, Len(s) - 1)) ELSE s
Trim(s) == TrimEnd(TrimStart(s))

\* The inputs of a call.
ContextNames == {<<>>, <<"a">>}
NoKubeconfig ==
    [readable |-> FALSE, current_context |-> None,
     contexts |-> [n \in ContextNames |-> NoContext]]
Kubeconfigs ==
    {NoKubeconfig} \cup
    [readable : {TRUE},
     current_context : {None, Some(<<"a">>), Some(<<"b">>)},
     contexts : [ContextNames -> {NoContext, Context(None), Context(Some(<<>>)),
                                  Context(Some(<<"kube-ns">>))}]]
PodNamespaces == {None, Some(<<>>), Some(<<"env-ns", "\n">>)}
NoFile == [exists |-> FALSE, readable |-> FALSE, content |-> <<>>]
NamespaceFiles ==
    {NoFile, [exists |-> TRUE, readable |-> FALSE, content |-> <<>>]}
      \cup {[exists |-> TRUE, readable |-> TRUE, content |-> c] :
               c \in {<<"file-ns">>, <<" ", "file-ns", "\n">>, <<"\n">>}}
NoResult == [kind |-> "none", value |-> <<>>]
NsIdle == [pc |-> "idle", kubeconfig |-> NoKubeconfig, pod_namespace |-> None,
           file |-> NoFile, result |-> NoResult]
NsCalls == {[pc |-> "call", kubeconfig |-> k, pod_namespace |-> p, file |-> f,
             result |-> NoResult] :
              k \in Kubeconfigs, p \in PodNamespaces, f \in NamespaceFiles}

current_namespace(kubeconfig, pod_namespace, file) ==
    LET current_context_name ==
            IF kubeconfig.current_context.set THEN kubeconfig.current_context.value
            ELSE <<>>
        found == /\ current_context_name \in DOMAIN kubeconfig.contexts
                 /\ kubeconfig.contexts[current_context_name].present
        current_namespace_ ==
            IF kubeconfig.contexts[current_context_name].namespace.set
            THEN kubeconfig.contexts[current_context_name].namespace.value
            ELSE <<>>
    IN  IF kubeconfig.readable /\ ~found
        THEN [kind |-> "panic", value |-> <<>>]
        ELSE IF kubeconfig.readable /\ current_namespace_ # <<>>
        THEN [kind |-> "ok", value |-> current_namespace_]
        ELSE IF pod_namespace.set
        THEN [kind |-> "ok", value |-> pod_namespace.value]
        ELSE IF file.exists
        THEN IF file.readable THEN [kind |-> "ok", value |-> Trim(file.content)]
             ELSE [kind |-> "err", value |-> <<>>]
        ELSE [kind |-> "ok", value |-> DEFAULT_NAMESPACE]

\* ------------------------------------------------------------------ state
VARIABLES
    cli,      \* the parsed command line: storage adapter and fetch interval
    files,    \* the files of ./data (LocalStorage)
    secret,   \* the secret object in the cluster (KubernetesStorage)
    env,      \* "never": no call ever fails; "on": calls may fail; "healed"
    mainPc,   \* where main is
    taskPc,   \* where the spawned provider_interval task is
    wf,       \* the frame of the latest fetch_contracts call
    cycle,    \* workflow executions started so far (saturates at MaxCycles)
    calls,    \* the storage and remote calls of the latest execution, in order
    fresh,    \* whether the storage target was empty at the start
    ns        \* the inputs and the result of the latest current_namespace call

vars == <<cli, files, secret, env, mainPc, taskPc, wf, cycle, calls, fresh, ns>>

\* The locals of fetch_contracts, and four records of the execution kept
\* for the properties: stored (what this execution has stored), valid_at_start
\* (whether it started on a valid CA, certificate and key), chain_before
\* (the chain entry as store_chain found it) and after (how the execution
\* before this one ended: "none" for the first, "cut" when the process was
\* ended during it).  has_ca and has_certificate hold what the check
\* answered, with "error" for a false that came from a failed read of the
\* control plane.
IdleFrame ==
    [pc |-> "idle", has_ca |-> "none", has_certificate |-> "none",
     response_ca |-> <<>>, key |-> <<>>, response_cert |-> <<>>,
     ca |-> <<>>, ca_hash |-> <<>>, hash_sent |-> <<>>,
     response_certs |-> <<>>, certificates |-> <<>>, stored |-> {},
     valid_at_start |-> FALSE, chain_before |-> AbsentEntry, after |-> "none"]

\* The entry stored under a logical key (ca, cert, key, chain).
FileOf(k) ==
    CASE k = SECRET_CA -> "ca.crt"
      [] k = SECRET_CERT -> "cert.crt"
      [] k = SECRET_KEY -> "cert.key"
      [] OTHER -> "chain.crt"

StoredEntry(k) ==
    IF cli.storage = "Local" THEN files[FileOf(k)]
    ELSE IF secret.exists /\ secret.hasData THEN secret.data[k] ELSE AbsentEntry

\* The entry exists, can be read and parses.
ValidCa == /\ StoredEntry(SECRET_CA).kind = "present"
           /\ X509_from_pem_is_ok(StoredEntry(SECRET_CA).bytes)
ValidCertificate == /\ StoredEntry(SECRET_CERT).kind = "present"
                    /\ X509_from_pem_is_ok(StoredEntry(SECRET_CERT).bytes)
ValidKey == /\ StoredEntry(SECRET_KEY).kind = "present"
            /\ private_key_from_pem_is_ok(StoredEntry(SECRET_KEY).bytes)

Exited == {"exit_ok", "exit_err", "exit_panic"}
Finished == {"ok", "err", "panic"}

Local == cli.storage = "Local"
\* The process is alive and a fetch_contracts call is in flight.
InFetch == mainPc = "fetch" \/ (mainPc = "signal" /\ taskPc = "fetch")
\* Remote calls, control-plane calls and writes can fail only while env = "on".
MayFail == env = "on"
ApiOutcomes == IF MayFail THEN {TRUE, FALSE} ELSE {TRUE}

\* --------------------------------------------------------- initial states
\* What a storage target can hold when the process starts: nothing, or what
\* earlier runs and other programs left there.
InitBytes == {Junk, <<"CA1">>, <<"CERT1">>, <<"KEY1">>}
OldChain == <<"X", "Y", "CA1">>

InitFiles ==
    {f \in [FileNames -> {AbsentEntry, UnreadableEntry} \cup {Present(b) : b \in InitBytes}] :
        /\ f["ca.crt"] \in {AbsentEntry, UnreadableEntry, Present(Junk), Present(<<"CA1">>)}
        /\ f["cert.crt"] \in {AbsentEntry, UnreadableEntry, Present(Junk), Present(<<"CERT1">>)}
        /\ f["cert.key"] \in {AbsentEntry, UnreadableEntry, Present(Junk), Present(<<"KEY1">>)}
        /\ f["chain.crt"] = AbsentEntry}
      \cup {[f EXCEPT !["chain.crt"] = Present(OldChain)] :
              f \in {g \in [FileNames -> {AbsentEntry, Present(<<"CA1">>), Present(<<"CERT1">>), Present(<<"KEY1">>)}] :
                        /\ g["ca.crt"] = Present(<<"CA1">>)
                        /\ g["cert.crt"] \in {AbsentEntry, Present(<<"CERT1">>)}
                        /\ g["cert.key"] \in {AbsentEntry, Present(<<"KEY1">>)}
                        /\ g["chain.crt"] = AbsentEntry}}

InitSecrets ==
    {NoSecret, [exists |-> TRUE, name |-> SecretName, hasData |-> FALSE, data |-> NoData]}
      \cup {[exists |-> TRUE, name |-> SecretName, hasData |-> TRUE, data |-> d] :
              d \in {e \in [SecretKeys -> {AbsentEntry} \cup {Present(b) : b \in InitBytes \cup {OldChain, <<"CERT1", "CA1">>}}] :
                        /\ e[SECRET_CA] \in {AbsentEntry, Present(Junk), Present(<<"CA1">>)}
                        /\ e[SECRET_CERT] \in {AbsentEntry, Present(Junk), Present(<<"CERT1">>)}
                        /\ e[SECRET_KEY] \in {AbsentEntry, Present(Junk), Present(<<"KEY1">>)}
                        /\ e[SECRET_CHAIN] \in {AbsentEntry, Present(OldChain)}
                        /\ (e[SECRET_CHAIN] # AbsentEntry => e[SECRET_CA] = Present(<<"CA1">>))
                        /\ e[SECRET_CERT_WITH_CA] =
                              IF e[SECRET_CERT] = Present(<<"CERT1">>) /\ e[SECRET_CA] = Present(<<"CA1">>)
                              THEN Present(<<"CERT1", "CA1">>) ELSE AbsentEntry}}

Init ==
    /\ cli \in [storage : {"Local", "Kubernetes"}, fetch_interval : {"None", "10s", "bad"}]
    /\ IF cli.storage = "Local"
       THEN files \in InitFiles /\ secret = NoSecret
       ELSE files = NoFiles /\ secret \in InitSecrets
    /\ env \in {"never", "on"}
    /\ mainPc = "start"
    /\ taskPc = "none"
    /\ wf = IdleFrame
    /\ cycle = 0
    /\ calls = <<>>
    /\ fresh = (files = NoFiles /\ secret = NoSecret)
    /\ ns = NsIdle

\* -------------------------------------------------------------- scheduler
\* The entry of fetch_contracts: a new frame.
BeginFetch ==
    /\ wf' = [IdleFrame EXCEPT !.pc = "connect",
                            !.valid_at_start = ValidCa /\ ValidCertificate /\ ValidKey,
                            !.after = CASE wf.pc = "idle" -> "none"
                                        [] wf.pc \in {"ok", "err", "panic"} -> wf.pc
                                        [] OTHER -> "cut"]
    /\ cycle' = IF cycle < MaxCycles THEN cycle + 1 ELSE cycle
    /\ calls' = <<>>

\* main, fetch_interval None: fetch_contracts(&cli).await?
MainRunOnce ==
    /\ mainPc = "start"
    /\ cli.fetch_interval = "None"
    /\ mainPc' = "fetch"
    /\ BeginFetch
    /\ UNCHANGED <<cli, files, secret, env, taskPc, fresh, ns>>

\* A faulty variant: the result of the call is dropped, main ends with Ok.
MainFetchReturn_IgnoresResult ==
    /\ mainPc = "fetch"
    /\ wf.pc \in Finished
    /\ mainPc' = "exit_ok"
    /\ UNCHANGED <<cli, files, secret, env, taskPc, wf, cycle, calls, fresh, ns>>

\* main, fetch_interval None: the call returned; `?` and Ok(()) end main.
MainFetchReturn ==
    /\ mainPc = "fetch"
    /\ wf.pc \in Finished
    /\ mainPc' = (CASE wf.pc = "ok" -> "exit_ok"
                    [] wf.pc = "err" -> "exit_err"
                    [] OTHER -> "exit_panic")
    /\ UNCHANGED <<cli, files, secret, env, taskPc, wf, cycle, calls, fresh, ns>>

\* main, fetch_interval Some: parse_duration::parse(interval)? fails.
MainParseError ==
    /\ mainPc = "start"
    /\ cli.fetch_interval = "bad"
    /\ mainPc' = "exit_err"
    /\ UNCHANGED <<cli, files, secret, env, taskPc, wf, cycle, calls, fresh, ns>>

\* main, fetch_interval Some: tokio::spawn(provider_interval(..)), then
\* signal().await.
MainSpawn ==
    /\ mainPc = "start"
    /\ cli.fetch_interval = "10s"
    /\ mainPc' = "signal"
    /\ taskPc' = "spawned"
    /\ UNCHANGED <<cli, files, secret, env, wf, cycle, calls, fresh, ns>>

\* signal(): SIGINT or SIGTERM arrives; main returns Ok(()) and the runtime
\* drops the spawned task where it is.
Signal ==
    /\ mainPc = "signal"
    /\ mainPc' = "exit_ok"
    /\ UNCHANGED <<cli, files, secret, env, taskPc, wf, cycle, calls, fresh, ns>>

\* provider_interval, top of the loop: fetch_contracts(&config).await
ProviderIntervalFetch ==
    /\ mainPc = "signal"
    /\ taskPc \in {"spawned", "woke"}
    /\ taskPc' = "fetch"
    /\ BeginFetch
    /\ UNCHANGED <<cli, files, secret, env, mainPc, fresh, ns>>

\* A faulty variant: the loop goes round without the sleep.
ProviderIntervalReturn_NoSleep ==
    /\ mainPc = "signal"
    /\ taskPc = "fetch"
    /\ wf.pc \in Finished
    /\ taskPc' = (CASE wf.pc = "ok" -> "woke"
                    [] wf.pc = "err" -> "returned"
                    [] OTHER -> "panicked")
    /\ UNCHANGED <<cli, files, secret, env, mainPc, wf, cycle, calls, fresh, ns>>

\* A faulty variant: a call that did not return Ok ends the whole process.
ProviderIntervalReturn_EndsProcess ==
    /\ mainPc = "signal"
    /\ taskPc = "fetch"
    /\ wf.pc \in Finished
    /\ taskPc' = (CASE wf.pc = "ok" -> "sleep"
                    [] wf.pc = "err" -> "returned"
                    [] OTHER -> "panicked")
    /\ mainPc' = IF wf.pc = "ok" THEN mainPc ELSE "exit_err"
    /\ UNCHANGED <<cli, files, secret, env, wf, cycle, calls, fresh, ns>>

\* provider_interval: the call returned.  Ok goes on to the sleep; on Err,
\* map_err logs and `?` returns from provider_interval; a panic ends the task.
ProviderIntervalReturn ==
    /\ mainPc = "signal"
    /\ taskPc = "fetch"
    /\ wf.pc \in Finished
    /\ taskPc' = (CASE wf.pc = "ok" -> "sleep"
                    [] wf.pc = "err" -> "returned"
                    [] OTHER -> "panicked")
    /\ UNCHANGED <<cli, files, secret, env, mainPc, wf, cycle, calls, fresh, ns>>

\* provider_interval: tokio::time::sleep(duration).await elapsed.
ProviderIntervalSleep ==
    /\ mainPc = "signal"
    /\ taskPc = "sleep"
    /\ taskPc' = "woke"
    /\ UNCHANGED <<cli, files, secret, env, mainPc, wf, cycle, calls, fresh, ns>>

\* The process has exited and is started again on the same storage target.
Restart ==
    /\ mainPc \in Exited
    /\ mainPc' = "start"
    /\ taskPc' = "none"
    /\ UNCHANGED <<cli, files, secret, env, wf, cycle, calls, fresh, ns>>

\* The cause of the failures (network, credentials) resolves itself.
Heal ==
    /\ env = "on"
    /\ env' = "healed"
    /\ UNCHANGED <<cli, files, secret, mainPc, taskPc, wf, cycle, calls, fresh, ns>>

\* --------------------------------------------------------- fetch_contracts
\* A faulty variant: the certificate step is entered first, the CA step left out.
AfterConnect_CertificateFirst == "has_certificate"

\* The step that follows each completed step.
AfterConnect == "has_ca"
AfterCaStep == "has_certificate"
AfterCertificateStep == "get_ca"

Step(pc, name) ==
    /\ InFetch
    /\ wf.pc = pc
    /\ calls' = IF name = "" THEN calls ELSE Append(calls, name)
    /\ UNCHANGED <<cli, env, mainPc, taskPc, cycle, fresh, ns>>

\* Endpoint connect (PKI, repository) and the construction of the storage.
Connect ==
    /\ Step("connect", "")
    /\ wf' = [wf EXCEPT !.pc = AfterConnect]
    /\ UNCHANGED <<files, secret>>

ConnectFail ==
    /\ Step("connect", "")
    /\ MayFail
    /\ wf' = [wf EXCEPT !.pc = "err"]
    /\ UNCHANGED <<files, secret>>

\* if !storage.has_ca().await
HasCa ==
    /\ Step("has_ca", "has_ca")
    /\ \E apiOk \in ApiOutcomes :
         LET r == IF Local THEN LocalHasCa(files) ELSE K8sHasCa(secret, apiOk)
         IN  wf' = [wf EXCEPT !.has_ca = IF ~Local /\ ~apiOk THEN "error" ELSE r,
                              !.pc = CASE r = "panic" -> "panic"
                                       [] r = "true" -> AfterCaStep
                                       [] OTHER -> "pki_get_ca"]
    /\ UNCHANGED <<files, secret>>

\* pki.get_ca(Request::new(())).await?
PkiGetCa ==
    /\ Step("pki_get_ca", "pki_get_ca")
    /\ \E t \in CaTokens : wf' = [wf EXCEPT !.pc = "store_ca", !.response_ca = <<t>>]
    /\ UNCHANGED <<files, secret>>

PkiGetCaFail ==
    /\ Step("pki_get_ca", "pki_get_ca")
    /\ MayFail
    /\ wf' = [wf EXCEPT !.pc = "err"]
    /\ UNCHANGED <<files, secret>>

\* storage.store_ca(&response.certificate).await?
StoreCa ==
    /\ Step("store_ca", "store_ca")
    /\ wf' = [wf EXCEPT !.pc = AfterCaStep, !.stored = @ \cup {"ca"}]
    /\ IF Local
       THEN files' = LocalStoreCa(files, wf.response_ca) /\ UNCHANGED secret
       ELSE secret' = K8sStoreCa(secret, wf.response_ca) /\ UNCHANGED files

StoreCaFail ==
    /\ Step("store_ca", "store_ca")
    /\ MayFail
    /\ wf' = [wf EXCEPT !.pc = "err"]
    /\ IF Local
       THEN files' \in WriteFileFailed(files, "ca.crt") /\ UNCHANGED secret
       ELSE UNCHANGED <<files, secret>>

\* if !storage.has_certificate().await
HasCertificate ==
    /\ Step("has_certificate", "has_certificate")
    /\ \E apiOk \in ApiOutcomes :
         LET r == IF Local THEN LocalHasCertificate(files)
                  ELSE K8sHasCertificate(secret, apiOk)
         IN  wf' = [wf EXCEPT !.has_certificate =
                                  IF ~Local /\ ~apiOk THEN "error" ELSE r,
                              !.pc = CASE r = "panic" -> "panic"
                                       [] r = "true" -> AfterCertificateStep
                                       [] OTHER -> "pki_sign_csr"]
    /\ UNCHANGED <<files, secret>>

\* create_csr(&config.common_name)? and pki.sign_csr(..).await?
PkiSignCsr ==
    /\ Step("pki_sign_csr", "pki_sign_csr")
    /\ \E k \in KeyTokens, c \in SignedTokens :
         wf' = [wf EXCEPT !.pc = "store_certificate", !.key = <<k>>,
                          !.response_cert = <<c>>]
    /\ UNCHANGED <<files, secret>>

PkiSignCsrFail ==
    /\ Step("pki_sign_csr", "pki_sign_csr")
    /\ MayFail
    /\ wf' = [wf EXCEPT !.pc = "err"]
    /\ UNCHANGED <<files, secret>>

\* storage.store_certificate(&response.certificate, &key..).await?
StoreCertificate ==
    /\ Step("store_certificate", "store_certificate")
    /\ wf' = [wf EXCEPT !.pc = AfterCertificateStep, !.stored = @ \cup {"certificate"}]
    /\ IF Local
       THEN /\ files' = LocalStoreCertificate(files, wf.response_cert, wf.key)
            /\ UNCHANGED secret
       ELSE /\ K8sGetCa(secret, TRUE).ok
            /\ secret' = K8sStoreCertificate(secret, wf.response_cert, wf.key,
                                             K8sGetCa(secret, TRUE).ca)
            /\ UNCHANGED files

\* A faulty variant: a failed store_certificate rolls the CA of this execution back.
StoreCertificateFail_Rollback ==
    /\ Step("store_certificate", "store_certificate")
    /\ MayFail
    /\ wf' = [wf EXCEPT !.pc = "err"]
    /\ IF Local
       THEN files' = [files EXCEPT !["ca.crt"] = AbsentEntry] /\ UNCHANGED secret
       ELSE /\ secret' = [secret EXCEPT !.data[SECRET_CA] = AbsentEntry]
            /\ UNCHANGED files

\* Err: a write failed (Local); get_ca found no CA, or the control plane
\* refused the read or the commit (Kubernetes).
StoreCertificateFail ==
    /\ Step("store_certificate", "store_certificate")
    /\ wf' = [wf EXCEPT !.pc = "err"]
    /\ IF Local
       THEN /\ MayFail
            /\ files' \in LocalStoreCertificateFailed(files, wf.response_cert)
            /\ UNCHANGED secret
       ELSE /\ MayFail \/ ~K8sGetCa(secret, TRUE).ok
            /\ UNCHANGED <<files, secret>>

\* A faulty variant: the CA of the PKI response of this execution is used
\* instead of a read of the storage.
GetCa_FromResponse ==
    /\ Step("get_ca", "get_ca")
    /\ wf' = [wf EXCEPT !.pc = "get_certificates", !.ca = wf.response_ca,
                        !.ca_hash = certificate_hash(wf.response_ca).hash]
    /\ UNCHANGED <<files, secret>>

\* let (ca, ca_hash) = storage.get_ca().await?
GetCa ==
    /\ Step("get_ca", "get_ca")
    /\ LET r == IF Local THEN LocalGetCa(files) ELSE K8sGetCa(secret, TRUE)
       IN  /\ r.ok
           /\ wf' = [wf EXCEPT !.pc = "get_certificates", !.ca = r.ca, !.ca_hash = r.hash]
    /\ UNCHANGED <<files, secret>>

GetCaFail ==
    /\ Step("get_ca", "get_ca")
    /\ LET r == IF Local THEN LocalGetCa(files) ELSE K8sGetCa(secret, TRUE)
       IN  MayFail \/ ~r.ok
    /\ wf' = [wf EXCEPT !.pc = "err"]
    /\ UNCHANGED <<files, secret>>

\* repo.get_certificates(.. Hash(ca_hash) ..).await?, then
\* certificates.push(ca)
RepoResponses == SeqsUpTo({<<t>> : t \in RepoTokens}, MaxRepo)

GetCertificates ==
    /\ Step("get_certificates", "get_certificates")
    /\ \E response \in RepoResponses :
         wf' = [wf EXCEPT !.pc = "store_chain", !.hash_sent = wf.ca_hash,
                          !.response_certs = response,
                          !.certificates = Append(response, wf.ca)]
    /\ UNCHANGED <<files, secret>>

\* A faulty variant: a failed repository call empties the stored chain.
GetCertificatesFail_ClearsChain ==
    /\ Step("get_certificates", "get_certificates")
    /\ MayFail
    /\ wf' = [wf EXCEPT !.pc = "err", !.hash_sent = wf.ca_hash]
    /\ IF Local
       THEN files' = [files EXCEPT !["chain.crt"] = Present(<<>>)] /\ UNCHANGED secret
       ELSE secret' = K8sStoreChain(secret, <<>>) /\ UNCHANGED files

GetCertificatesFail ==
    /\ Step("get_certificates", "get_certificates")
    /\ MayFail
    /\ wf' = [wf EXCEPT !.pc = "err", !.hash_sent = wf.ca_hash]
    /\ UNCHANGED <<files, secret>>

\* storage.store_chain(&certificates).await?, then Ok(())
StoreChain ==
    /\ Step("store_chain", "store_chain")
    /\ wf' = [wf EXCEPT !.pc = "ok", !.stored = @ \cup {"chain"},
                     !.chain_before = StoredEntry(SECRET_CHAIN)]
    /\ IF Local
       THEN files' = LocalStoreChain(files, wf.certificates) /\ UNCHANGED secret
       ELSE secret' = K8sStoreChain(secret, wf.certificates) /\ UNCHANGED files

StoreChainFail ==
    /\ Step("store_chain", "store_chain")
    /\ MayFail
    /\ wf' = [wf EXCEPT !.pc = "err", !.chain_before = StoredEntry(SECRET_CHAIN)]
    /\ IF Local
       THEN files' \in LocalStoreChainFailed(files, wf.certificates) /\ UNCHANGED secret
       ELSE UNCHANGED <<files, secret>>

Workflow ==
    \/ Connect \/ ConnectFail
    \/ HasCa \/ PkiGetCa \/ PkiGetCaFail \/ StoreCa \/ StoreCaFail
    \/ HasCertificate \/ PkiSignCsr \/ PkiSignCsrFail
    \/ StoreCertificate \/ StoreCertificateFail
    \/ GetCa \/ GetCaFail \/ GetCertificates \/ GetCertificatesFail
    \/ StoreChain \/ StoreChainFail

Task == ProviderIntervalFetch \/ ProviderIntervalReturn \/ ProviderIntervalSleep

Main == MainRunOnce \/ MainFetchReturn \/ MainParseError \/ MainSpawn

Next ==
    \/ Main
    \/ Signal \/ Restart \/ Heal
    \/ Task
    \/ Workflow

Spec == Init /\ [][Next]_vars

\* The runtime keeps polling main, the spawned task and the call in flight;
\* signals, restarts and the healing of the environment are under no
\* obligation to happen.
FairSpec == Spec /\ WF_vars(Main) /\ WF_vars(Task) /\ WF_vars(Workflow)

\* ---------------------------------------------------- store_chain alone
\* store_chain called again and again on one storage target, with any
\* certificate lists: the frame stands at the store_chain call.
ChainBytes == {<<"X">>, <<"Y">>, <<"CA1">>}
ChainInputs == SeqsUpTo(ChainBytes, MaxChain)

ChainInit ==
    /\ cli \in [storage : {"Local", "Kubernetes"}, fetch_interval : {"None"}]
    /\ files = NoFiles
    /\ secret = NoSecret
    /\ env \in {"never", "on"}
    /\ mainPc = "fetch"
    /\ taskPc = "none"
    /\ \E certificates \in ChainInputs :
         wf = [IdleFrame EXCEPT !.pc = "store_chain", !.certificates = certificates]
    /\ cycle = 1
    /\ calls = <<>>
    /\ fresh = TRUE
    /\ ns = NsIdle

\* The caller hands store_chain another list.
StoreChainAgain ==
    /\ wf.pc \in {"ok", "err"}
    /\ \E certificates \in ChainInputs :
         wf' = [wf EXCEPT !.pc = "store_chain", !.certificates = certificates]
    /\ calls' = <<>>
    /\ UNCHANGED <<cli, files, secret, env, mainPc, taskPc, cycle, fresh, ns>>

ChainNext == StoreChain \/ StoreChainFail \/ StoreChainAgain

ChainSpec == ChainInit /\ [][ChainNext]_vars

\* ------------------------------------------- the Kubernetes adapter alone
\* The three store operations of KubernetesStorage called in any order, with
\* any arguments, on any secret: the frame stands at the call.
SecretCalls ==
    {[IdleFrame EXCEPT !.pc = "store_ca", !.response_ca = <<c>>] : c \in CaTokens}
      \cup {[IdleFrame EXCEPT !.pc = "store_certificate",
                              !.response_cert = <<c>>, !.key = <<k>>] :
               c \in SignedTokens, k \in KeyTokens}
      \cup {[IdleFrame EXCEPT !.pc = "store_chain", !.certificates = cs] :
               cs \in ChainInputs}

SecretInit ==
    /\ cli = [storage |-> "Kubernetes", fetch_interval |-> "None"]
    /\ files = NoFiles
    /\ secret \in InitSecrets
    /\ env \in {"never", "on"}
    /\ mainPc = "fetch"
    /\ taskPc = "none"
    /\ wf \in SecretCalls
    /\ cycle = 1
    /\ calls = <<>>
    /\ fresh = (secret = NoSecret)
    /\ ns = NsIdle

\* The caller makes another call.
SecretCallAgain ==
    /\ wf.pc \notin {"store_ca", "store_certificate", "store_chain"}
    /\ wf' \in SecretCalls
    /\ calls' = <<>>
    /\ UNCHANGED <<cli, files, secret, env, mainPc, taskPc, cycle, fresh, ns>>

SecretNext ==
    \/ StoreCa \/ StoreCaFail
    \/ StoreCertificate \/ StoreCertificateFail
    \/ StoreChain \/ StoreChainFail
    \/ SecretCallAgain

SecretSpec == SecretInit /\ [][SecretNext]_vars

\* ------------------------------------------------ current_namespace alone
\* KubernetesStorage::new resolving the namespace: first where no kubeconfig
\* can be read (in a pod), then in any environment.
NamespaceInit ==
    /\ cli = [storage |-> "Kubernetes", fetch_interval |-> "None"]
    /\ files = NoFiles
    /\ secret = NoSecret
    /\ env = "never"
    /\ mainPc = "fetch"
    /\ taskPc = "none"
    /\ wf = [IdleFrame EXCEPT !.pc = "connect"]
    /\ cycle = 1
    /\ calls = <<>>
    /\ fresh = TRUE
    /\ ns \in {c \in NsCalls : c.kubeconfig = NoKubeconfig}

CurrentNamespace ==
    /\ ns.pc = "call"
    /\ ns' = [ns EXCEPT !.pc = "done",
                        !.result = current_namespace(ns.kubeconfig, ns.pod_namespace, ns.file)]
    /\ UNCHANGED <<cli, files, secret, env, mainPc, taskPc, wf, cycle, calls, fresh>>

\* The next process start, in another environment.
CurrentNamespaceAgain ==
    /\ ns.pc = "done"
    /\ ns' \in NsCalls
    /\ UNCHANGED <<cli, files, secret, env, mainPc, taskPc, wf, cycle, calls, fresh>>

NamespaceNext == CurrentNamespace \/ CurrentNamespaceAgain

NamespaceSpec == NamespaceInit /\ [][NamespaceNext]_vars

\* ------------------------------------------------------------- properties
RunForever == cli.fetch_interval = "10s"
\* The process was ended by a termination signal.
Signalled == RunForever /\ mainPc = "exit_ok"
\* A fetch_contracts call has just ended and has not been returned from yet.
Ended == InFetch /\ wf.pc \in Finished
LastCall == IF calls = <<>> THEN "" ELSE calls[Len(calls)]
Called(name) == \E i \in 1..Len(calls) : calls[i] = name
Count(name) == Cardinality({i \in 1..Len(calls) : calls[i] = name})

\* C1: in run-forever mode, when a fetch_contracts call of the loop has
\* failed, the next step of provider_interval is the interval sleep (and
\* then another call): a failed call never ends the loop.
C1_FailedFetchKeepsLoop ==
    [][(/\ RunForever /\ mainPc = "signal" /\ mainPc' = "signal"
        /\ taskPc = "fetch" /\ wf.pc = "err" /\ taskPc' # taskPc)
          => taskPc' = "sleep"]_vars

\* No call fails and no storage check panics.
AllCallsSucceed == env # "on" /\ wf.pc # "panic"

\* C2: in run-forever mode with no termination signal, once every PKI call,
\* repository call and storage operation succeeds for good (no call fails and
\* no storage check panics from then on), a workflow execution eventually
\* completes successfully, the chain stored.
C2_SelfHeals ==
    (RunForever /\ []~Signalled)
        => []([]AllCallsSucceed
                => <>(InFetch /\ wf.pc = "ok" /\ "chain" \in wf.stored))

\* C3: a run that follows a run in succession (the run before it ran to its
\* end) on an initially empty storage target, and any run that starts on a
\* valid stored CA, certificate and key, with no call failing, makes no PKI
\* call, one repository call and one store_chain.
C3_SecondRunIdempotent ==
    (/\ Ended /\ env = "never"
     /\ \/ fresh /\ cycle >= 2 /\ wf.after \in Finished
        \/ wf.valid_at_start)
        => /\ wf.pc = "ok"
           /\ Count("pki_get_ca") = 0
           /\ Count("pki_sign_csr") = 0
           /\ Count("get_certificates") = 1
           /\ Count("store_chain") = 1

\* C4: the first execution on an empty storage target, with no call
\* failing, ends with ca, cert and key as the PKI answered and as create_csr
\* generated, the chain = the repository's certificates in order followed by
\* the stored CA, and the repository asked with that CA's fingerprint.
C4_EndToEndOnEmptyStorage ==
    (Ended /\ fresh /\ cycle = 1 /\ env = "never")
        => /\ wf.pc = "ok"
           /\ StoredEntry(SECRET_CA) = Present(wf.response_ca)
           /\ StoredEntry(SECRET_CERT) = Present(wf.response_cert)
           /\ StoredEntry(SECRET_KEY) = Present(wf.key)
           /\ StoredEntry(SECRET_CHAIN) =
                 Present(Concat(wf.response_certs) \o StoredEntry(SECRET_CA).bytes)
           /\ wf.hash_sent = certificate_hash(wf.response_ca).hash

\* C5: has_certificate never fails, and (the backend answering) returns true
\* exactly when cert and key are both present and each parses.
C5_HasCertificateGating ==
    (LastCall = "has_certificate" /\ wf.has_certificate # "none")
        => /\ wf.has_certificate # "panic"
           /\ wf.has_certificate = "true" => (ValidCertificate /\ ValidKey)
           /\ env = "never" =>
                (wf.has_certificate = "true" <=> (ValidCertificate /\ ValidKey))

\* C6: has_ca never fails, and returns true exactly when the ca entry exists
\* and parses; a missing entry or container, an unparsable entry and a read
\* error all give false.
C6_HasCaGating ==
    (LastCall = "has_ca" /\ wf.has_ca # "none")
        => /\ wf.has_ca # "panic"
           /\ wf.has_ca = "true" => ValidCa
           /\ env = "never" => (wf.has_ca = "true" <=> ValidCa)

\* The place of each call in the order of fetch_contracts.
Rank(name) ==
    CASE name = "has_ca" -> 1
      [] name = "pki_get_ca" -> 2
      [] name = "store_ca" -> 3
      [] name = "has_certificate" -> 4
      [] name = "pki_sign_csr" -> 5
      [] name = "store_certificate" -> 6
      [] name = "get_ca" -> 7
      [] name = "get_certificates" -> 8
      [] name = "store_chain" -> 9
      [] OTHER -> 0
\* The CA step, the certificate step of this execution are through.
CaStepCompleted == Called("has_ca") /\ (wf.has_ca = "true" \/ "ca" \in wf.stored)
CertificateStepCompleted ==
    Called("has_certificate")
        /\ (wf.has_certificate = "true" \/ "certificate" \in wf.stored)

\* C7: within one execution the calls come in the order has_ca, get-CA,
\* store_ca, has_certificate, sign-CSR, store_certificate, get_ca,
\* get-certificates, store_chain; the certificate step starts only when the CA
\* step has completed, and the chain step only when both have.
C7_StepsInOrder ==
    /\ \A i, j \in 1..Len(calls) : i < j => Rank(calls[i]) < Rank(calls[j])
    /\ (calls # <<>>) => calls[1] = "has_ca"
    /\ (\E i \in 1..Len(calls) : Rank(calls[i]) >= 4) => CaStepCompleted
    /\ (\E i \in 1..Len(calls) : Rank(calls[i]) >= 7) => CertificateStepCompleted
    /\ Called("store_chain") => (Called("get_ca") /\ Called("get_certificates"))
\* An execution that made all nine calls and succeeded.
C7_Witness == wf.pc = "ok" /\ Len(calls) = 9

\* What this execution stored is stored as it stored it, and valid.
StoredStays ==
    /\ "ca" \in wf.stored =>
          (StoredEntry(SECRET_CA) = Present(wf.response_ca) /\ ValidCa)
    /\ "certificate" \in wf.stored =>
          /\ StoredEntry(SECRET_CERT) = Present(wf.response_cert)
          /\ StoredEntry(SECRET_KEY) = Present(wf.key)
          /\ ValidCertificate /\ ValidKey

\* C8: a failed execution stops at the failing step (no later call, no later
\* write) and what it had stored before stays stored as it was: the CA and
\* the certificate and key it stored are still there, and still valid for
\* the next execution's has_ca and has_certificate.
C8_AbortWithoutRollback ==
    /\ [](wf.pc \in {"err", "panic"} => StoredStays)
    /\ [][(wf.pc \in {"err", "panic"} /\ wf'.pc # "connect")
            => (wf' = wf /\ calls' = calls /\ files' = files /\ secret' = secret)]_vars
\* An execution that stored the CA and the certificate and failed afterwards.
C8_Witness ==
    wf.pc = "err" /\ wf.stored = {"ca", "certificate"} /\ LastCall = "store_chain"

\* C9: after a successful store_chain the persisted chain is exactly the
\* concatenation of the list just given, whatever an earlier store_chain left.
C9_ChainFullOverwrite ==
    wf.pc = "ok" => StoredEntry(SECRET_CHAIN) = Present(Concat(wf.certificates))
\* The list just stored is shorter than what an earlier store_chain left.
C9_Witness ==
    /\ wf.pc = "ok"
    /\ wf.chain_before.kind = "present"
    /\ Len(wf.chain_before.bytes) > Len(Concat(wf.certificates))
    /\ StoredEntry(SECRET_CHAIN) = Present(Concat(wf.certificates))

\* C10: at most one fetch_contracts call is in flight; the loop starts a
\* call only when spawned or woken from the sleep, the sleep starts only when
\* the call has returned, and main starts a call only in run-once mode, never
\* from the signal wait.
C10_OneWorkflowInFlight ==
    /\ [](~(mainPc = "fetch" /\ taskPc = "fetch"))
    /\ [](mainPc = "fetch" => (~RunForever /\ taskPc = "none"))
    /\ [][/\ (taskPc' = "fetch" /\ taskPc # "fetch")
               => (taskPc \in {"spawned", "woke"} /\ mainPc = "signal" /\ wf'.pc = "connect")
          /\ (taskPc' = "woke" /\ taskPc # "woke") => taskPc = "sleep"
          /\ (taskPc' = "sleep" /\ taskPc # "sleep")
               => (taskPc = "fetch" /\ wf.pc \in Finished)
          /\ (mainPc' = "fetch" /\ mainPc # "fetch") => (mainPc = "start" /\ ~RunForever)
          /\ (wf'.pc = "connect" /\ wf' # wf) => (~InFetch /\ InFetch')]_vars
\* A second execution in flight in the spawned task.
C10_Witness ==
    /\ RunForever /\ mainPc = "signal" /\ taskPc = "fetch"
    /\ cycle = 2 /\ wf.pc = "store_chain"

\* C11: in run-once mode main makes one fetch_contracts call, ends with its
\* outcome (exit_ok exactly when the call returned Ok), never makes a second
\* call, never spawns the task and never waits for a signal.
C11_RunOnce ==
    /\ [](cli.fetch_interval = "None" => (mainPc # "signal" /\ taskPc = "none"))
    /\ [][cli.fetch_interval = "None" =>
            /\ (mainPc = "start" /\ mainPc' # mainPc)
                 => (mainPc' = "fetch" /\ wf'.pc = "connect")
            /\ (mainPc = "fetch" /\ mainPc' # mainPc)
                 => /\ wf.pc \in Finished
                    /\ mainPc' \in Exited
                    /\ (mainPc' = "exit_ok" <=> wf.pc = "ok")
            /\ (wf'.pc = "connect" /\ wf' # wf) => mainPc = "start"
            /\ (mainPc \in Exited /\ mainPc' # mainPc) => mainPc' = "start"]_vars
\* A run-once process that ended in failure after its call returned Err.
C11_Witness ==
    cli.fetch_interval = "None" /\ mainPc = "exit_err" /\ wf.pc = "err"

\* The step appends this call to the log of the execution.
Calls(name) == calls' = Append(calls, name)

\* C12 as stated: while a certificate and key that parse are stored, no step
\* of any cycle calls the PKI sign-CSR or store_certificate, whatever fails.
C12_NeverResigned ==
    [][(ValidCertificate /\ ValidKey)
         => ~(Calls("pki_sign_csr") \/ Calls("store_certificate"))]_vars

\* C12 amended: while a certificate and key that parse are stored, a step
\* calls the PKI sign-CSR or store_certificate only in an execution on the
\* Kubernetes adapter whose has_certificate read of the control plane failed;
\* with the local adapter, or when the read succeeds, never.
C12_ResignedOnlyAfterReadError ==
    [][(/\ ValidCertificate /\ ValidKey
        /\ (Calls("pki_sign_csr") \/ Calls("store_certificate")))
         => (cli.storage = "Kubernetes" /\ wf.has_certificate = "error")]_vars
\* A second execution, with failures possible, that found the identity and
\* left it alone.
C12_Witness ==
    /\ cli.storage = "Kubernetes" /\ env # "never"
    /\ wf.after = "ok" /\ wf.pc = "ok"
    /\ wf.has_certificate = "true"
    /\ ~Called("pki_sign_csr") /\ ~Called("store_certificate")

C14_EndsOnlyOnSignal ==
    /\ [][RunForever =>
            /\ (mainPc' \in Exited /\ mainPc \notin Exited)
                 => /\ mainPc = "signal" /\ mainPc' = "exit_ok"
                    /\ taskPc' = taskPc /\ wf' = wf
                    /\ files' = files /\ secret' = secret
            /\ (mainPc = "signal" /\ taskPc' # taskPc) => mainPc' = "signal"]_vars
    /\ []((RunForever /\ mainPc = "signal") => ENABLED Signal)
\* The process ended on the signal while a call of the task was past its CA
\* step and not yet finished.
C14_Witness ==
    /\ RunForever /\ mainPc = "exit_ok"
    /\ taskPc = "fetch" /\ wf.pc = "store_certificate"

\* C15: from the return of get_ca on, the CA and fingerprint the execution
\* holds are the stored ca bytes and their fingerprint; the hash sent to the
\* repository is that fingerprint, and the list handed to store_chain is the
\* repository's response followed by those bytes.
C15_CaReadFromStorage ==
    LET ca == StoredEntry(SECRET_CA).bytes
    IN  /\ wf.pc \in {"get_certificates", "store_chain", "ok"}
             => /\ wf.ca = ca
                /\ wf.ca_hash = certificate_hash(ca).hash
        /\ wf.hash_sent # <<>> => wf.hash_sent = certificate_hash(ca).hash
        /\ wf.pc \in {"store_chain", "ok"}
             => /\ wf.hash_sent = certificate_hash(ca).hash
                /\ wf.certificates = Append(wf.response_certs, ca)
\* An execution that found the CA stored (no PKI response in it) and whose
\* predecessor stored another chain: hash and last chain element come from
\* the storage.
C15_Witness ==
    /\ wf.pc = "ok" /\ wf.has_ca = "true" /\ wf.after = "ok"
    /\ wf.response_ca = <<>>
    /\ wf.hash_sent = certificate_hash(StoredEntry(SECRET_CA).bytes).hash
    /\ wf.certificates[Len(wf.certificates)] = StoredEntry(SECRET_CA).bytes

\* C17: store_certificate of the Kubernetes adapter, called while the secret
\* holds no ca entry (no secret, no data, or data without ca), returns Err and
\* leaves the secret as it was: none is created, nothing is written.
C17_StoreCertificateNeedsCa ==
    [][(/\ cli.storage = "Kubernetes"
        /\ wf.pc = "store_certificate" /\ wf'.pc # wf.pc
        /\ StoredEntry(SECRET_CA).kind = "absent")
         => (wf'.pc = "err" /\ secret' = secret)]_vars
\* The call has failed, with no failure of the control plane, and there is
\* still no secret.
C17_Witness ==
    /\ cli.storage = "Kubernetes" /\ env = "never"
    /\ LastCall = "store_certificate" /\ wf.pc = "err"
    /\ secret = NoSecret

\* The entries a store operation writes.
WrittenKeys(name) ==
    CASE name = "store_ca" -> {SECRET_CA}
      [] name = "store_certificate" -> {SECRET_CERT, SECRET_KEY, SECRET_CERT_WITH_CA}
      [] name = "store_chain" -> {SECRET_CHAIN}
      [] OTHER -> {}

\* C18: a step that changes the secret is a store_ca, store_certificate or
\* store_chain call; it makes its own entries present and leaves every other
\* entry as it was, and when there was no secret the one it creates carries
\* the configured name and exactly the written entries.
C18_WritesOnlyOwnEntries ==
    [][secret' # secret =>
         \E name \in {"store_ca", "store_certificate", "store_chain"} :
            /\ Calls(name)
            /\ secret'.exists /\ secret'.hasData
            /\ secret'.name = IF secret.exists THEN secret.name ELSE SecretName
            /\ \A k \in WrittenKeys(name) : secret'.data[k].kind = "present"
            /\ \A k \in SecretKeys \ WrittenKeys(name) :
                  secret'.data[k] = IF secret.exists THEN secret.data[k]
                                    ELSE AbsentEntry]_vars
\* store_chain has created the secret: the configured name, the chain entry
\* and nothing else.
C18_Witness ==
    /\ fresh /\ LastCall = "store_chain" /\ wf.pc = "ok"
    /\ secret.exists /\ secret.name = SecretName
    /\ \A k \in SecretKeys : secret.data[k].kind = "present" <=> k = SECRET_CHAIN

\* C20: with the Kubernetes adapter, whenever the secret holds a cert_with_ca
\* entry it is the stored cert entry followed by the stored ca entry.
C20_CertWithCaInSync ==
    (cli.storage = "Kubernetes" /\ StoredEntry(SECRET_CERT_WITH_CA).kind = "present")
      => /\ StoredEntry(SECRET_CERT).kind = "present"
         /\ StoredEntry(SECRET_CA).kind = "present"
         /\ StoredEntry(SECRET_CERT_WITH_CA).bytes =
              StoredEntry(SECRET_CERT).bytes \o StoredEntry(SECRET_CA).bytes

\* The first available source of the namespace, in the order kubeconfig,
\* environment variable, file, default.
FirstAvailable(kubeconfig, pod_namespace, file) ==
    LET name == IF kubeconfig.current_context.set THEN kubeconfig.current_context.value
                ELSE <<>>
        context == IF name \in DOMAIN kubeconfig.contexts
                   THEN kubeconfig.contexts[name] ELSE NoContext
    IN  IF /\ kubeconfig.readable /\ context.present
           /\ context.namespace.set /\ context.namespace.value # <<>>
        THEN context.namespace.value
        ELSE IF pod_namespace.set THEN pod_namespace.value
        ELSE IF file.exists THEN Trim(file.content)
        ELSE DEFAULT_NAMESPACE

\* C16: for every combination of inputs current_namespace returns Ok with the
\* first available of the kubeconfig's namespace, POD_NAMESPACE, the trimmed
\* file and "default"; it never ends in an error or a panic.
C16_NamespaceResolution ==
    ns.pc = "done"
      => ns.result = [kind |-> "ok",
                      value |-> FirstAvailable(ns.kubeconfig, ns.pod_namespace, ns.file)]

\* C21: store_chain is called only by an execution whose repository call has
\* just answered (the list in hand is that response followed by the CA), and
\* only a store_chain call changes the stored chain: an execution that ends
\* before it, at the connect, the CA step, the certificate step, get_ca or
\* the repository call, leaves the chain entry as it was.
C21_ChainOnlyAfterResponse ==
    [][/\ Calls("store_chain")
          => /\ LastCall = "get_certificates"
             /\ wf.pc = "store_chain"
             /\ wf.certificates = Append(wf.response_certs, wf.ca)
       /\ StoredEntry(SECRET_CHAIN)' # StoredEntry(SECRET_CHAIN)
          => (Calls("store_chain") /\ LastCall = "get_certificates")]_vars
\* An execution after a successful one has failed at the repository call, and
\* the chain the earlier one stored is still there.
C21_Witness ==
    /\ wf.after = "ok" /\ wf.pc = "err" /\ LastCall = "get_certificates"
    /\ ~Called("store_chain")
    /\ StoredEntry(SECRET_CHAIN).kind = "present"
    /\ StoredEntry(SECRET_CHAIN).bytes # <<>>
====
